---- MODULE Spec2Model ----
(***************************************************************************)
(* Model of src/bot.py: the indicator functions, the confluence scorer,    *)
(* the position sizing / trade parameter functions and                     *)
(* CryptoFuturesBot.analyze.                                               *)
(*                                                                         *)
(* Numbers.  Prices and volumes are integers (ticks).  A derived column    *)
(* is a fixed-point number rounded down to its resolution:                 *)
(*   SMA, STD, UpperBand, LowerBand, ATR, VolAvg, OBV   ticks              *)
(*   BandWidth, RSI                                     1/100 (of a %)     *)
(*   EMA_fast, EMA_slow, MACD, Signal, MACD_Hist        1/1000 tick        *)
(*   entry, stop_loss, take_profit1/2                   1/100 tick         *)
(*   position_size                                      1/1000 unit        *)
(* account_risk is in percent (2 is the source's 0.02).                    *)
(***************************************************************************)
EXTENDS Integers, Sequences, FiniteSets, TLC

VARIABLES
    df,               \* the caller's DataFrame object: [cols, rows]
    given,            \* the candle series as the caller built it (history)
    account_risk,     \* CryptoFuturesBot.account_risk
    portfolio_value,  \* CryptoFuturesBot.portfolio_value
    pc,               \* position inside analyze
    frame,            \* analyze's local df after prepare_data (rows)
    score_long,       \* calculate_confluence_score's locals
    score_short,
    signal,
    confidence,
    pos_size,         \* analyze's local pos_size
    trade_details,    \* the value analyze returns
    error,            \* the exception that left analyze, or "none"
    trail,            \* the stages analyze has entered, in order (history)
    calls             \* number of analyze calls started on df

vars == <<df, given, account_risk, portfolio_value, pc, frame, score_long,
          score_short, signal, confidence, pos_size, trade_details, error,
          trail, calls>>

-----------------------------------------------------------------------------
(* Bounds of the model *)

\* analyze is called at most this many times on the same DataFrame
MaxCalls == 2
\* the per-bar step of the synthetic series is 5 * (1..MaxStep) ticks
MaxStep == 2

-----------------------------------------------------------------------------
(* Program constants *)

BB_WINDOW == 20
BB_NUM_STD == 2
RSI_PERIOD == 14
MACD_FAST == 12
MACD_SLOW == 26
MACD_SIGNAL == 9
ATR_PERIOD == 14
VOL_PERIOD == 24

W_BOLLINGER == 40
W_RSI == 25
W_MACD == 20
W_VOLUME == 15

HIGH_CONFIDENCE == 85
MODERATE_CONFIDENCE == 60

\* NaN of a numeric column (a value no column computes)
NaN == 0 - 2^30

NONE == "None"

CandleColumns == {"high", "low", "close", "volume"}

-----------------------------------------------------------------------------
(* Arithmetic helpers *)

Max(a, b) == IF a >= b THEN a ELSE b
Min(a, b) == IF a <= b THEN a ELSE b
Abs(a) == IF a >= 0 THEN a ELSE 0 - a

RECURSIVE SumRange(_, _, _)
SumRange(xs, lo, hi) == IF lo > hi THEN 0 ELSE xs[hi] + SumRange(xs, lo, hi - 1)

RECURSIVE SqrtFrom(_, _)
SqrtFrom(x, r) == IF (r + 1) * (r + 1) > x THEN r ELSE SqrtFrom(x, r + 1)

\* floor of the square root
Sqrt(x) == SqrtFrom(x, 0)

Column(rows, name) == [i \in 1..Len(rows) |-> rows[i][name]]

\* df[name] = vals : the column is added to (or overwritten in) df itself
SetColumn(d, name, vals) ==
    [cols |-> d.cols \cup {name},
     rows |-> [i \in 1..Len(d.rows) |-> (name :> vals[i]) @@ d.rows[i]]]

\* Series.rolling(window).sum() at row i (NaN while the window is incomplete)
RollingSum(xs, window, i) ==
    IF i < window \/ \E j \in (i - window + 1)..i : xs[j] = NaN
    THEN NaN
    ELSE SumRange(xs, i - window + 1, i)

\* Series.rolling(window).mean()
RollingMean(xs, window) ==
    [i \in 1..Len(xs) |->
        IF RollingSum(xs, window, i) = NaN THEN NaN
        ELSE RollingSum(xs, window, i) \div window]

\* Series.rolling(window).std(), the sample standard deviation (ddof = 1)
RollingStd(xs, window) ==
    [i \in 1..Len(xs) |->
        IF i < window THEN NaN
        ELSE LET s == SumRange(xs, i - window + 1, i)
                 q == SumRange([j \in 1..Len(xs) |-> xs[j] * xs[j]], i - window + 1, i)
             IN  Sqrt((window * q - s * s) \div (window * (window - 1)))]

RECURSIVE EwmMean(_, _)
\* Series.ewm(span, adjust=False).mean(): y[1] = x[1],
\* y[t] = (1 - a) y[t-1] + a x[t] with a = 2 / (span + 1)
EwmMean(xs, span) ==
    IF Len(xs) <= 1 THEN xs
    ELSE LET prev == EwmMean(SubSeq(xs, 1, Len(xs) - 1), span)
         IN  Append(prev, (2 * xs[Len(xs)] + (span - 1) * prev[Len(prev)]) \div (span + 1))

-----------------------------------------------------------------------------
(* Technical indicator functions.  Each takes the DataFrame d = [cols, rows] *)
(* and returns the same object with its columns assigned.                   *)

bollinger_bands(d, window, num_std) ==
    LET close == Column(d.rows, "close")
        sma   == RollingMean(close, window)
        std   == RollingStd(close, window)
        upper == [i \in 1..Len(close) |->
                    IF sma[i] = NaN THEN NaN ELSE sma[i] + num_std * std[i]]
        lower == [i \in 1..Len(close) |->
                    IF sma[i] = NaN THEN NaN ELSE sma[i] - num_std * std[i]]
        \* (upper - lower) / close * 100, in 1/100 of a percent
        width == [i \in 1..Len(close) |->
                    IF sma[i] = NaN THEN NaN
                    ELSE ((upper[i] - lower[i]) * 100 * 100) \div close[i]]
    IN  SetColumn(SetColumn(SetColumn(SetColumn(SetColumn(d,
            "SMA", sma), "STD", std), "UpperBand", upper),
            "LowerBand", lower), "BandWidth", width)

\* 100 - 100 / (1 + rs) with rs = avg_gain / (avg_loss + 1e-10), in 1/100:
\* it is 100 g / (g + l + e) for the window sums g, l and an e > 0 far below
\* the resolution, so 0 when g = 0 and just below 100 g / (g + l) otherwise.
RsiValue(g, l) == IF g = 0 THEN 0 ELSE (100 * 100 * g - 1) \div (g + l)

rsi(d, period) ==
    LET close == Column(d.rows, "close")
        delta == [i \in 1..Len(close) |-> IF i = 1 THEN NaN ELSE close[i] - close[i - 1]]
        gain  == [i \in 1..Len(close) |-> IF delta[i] = NaN THEN NaN ELSE Max(delta[i], 0)]
        loss  == [i \in 1..Len(close) |-> IF delta[i] = NaN THEN NaN ELSE 0 - Min(delta[i], 0)]
        val   == [i \in 1..Len(close) |->
                    IF RollingSum(gain, period, i) = NaN THEN NaN
                    ELSE RsiValue(RollingSum(gain, period, i), RollingSum(loss, period, i))]
    IN  SetColumn(d, "RSI", val)

macd(d, fast, slow, signal_period) ==
    LET close    == [i \in 1..Len(d.rows) |-> 1000 * d.rows[i].close]
        ema_fast == EwmMean(close, fast)
        ema_slow == EwmMean(close, slow)
        line     == [i \in 1..Len(close) |-> ema_fast[i] - ema_slow[i]]
        sig      == EwmMean(line, signal_period)
        hist     == [i \in 1..Len(close) |-> line[i] - sig[i]]
    IN  SetColumn(SetColumn(SetColumn(SetColumn(SetColumn(d,
            "EMA_fast", ema_fast), "EMA_slow", ema_slow), "MACD", line),
            "Signal", sig), "MACD_Hist", hist)

\* max over the three ranges, skipping the NaN of the first row's shift()
TrueRange(rows, i) ==
    IF i = 1 THEN rows[i].high - rows[i].low
    ELSE Max(rows[i].high - rows[i].low,
             Max(Abs(rows[i].high - rows[i - 1].close),
                 Abs(rows[i].low - rows[i - 1].close)))

atr(d, period) ==
    LET tr == [i \in 1..Len(d.rows) |-> TrueRange(d.rows, i)]
    IN  SetColumn(d, "ATR", RollingMean(tr, period))

RECURSIVE ObvVals(_, _)
\* obv_vals after the loop has run up to row n (n >= 1): a list of n values
ObvVals(rows, n) ==
    IF n <= 1 THEN <<0>>
    ELSE LET prev == ObvVals(rows, n - 1)
         IN  IF rows[n].close > rows[n - 1].close
                THEN Append(prev, prev[n - 1] + rows[n].volume)
             ELSE IF rows[n].close < rows[n - 1].close
                THEN Append(prev, prev[n - 1] - rows[n].volume)
             ELSE Append(prev, prev[n - 1])

\* df['OBV'] = obv_vals raises ValueError when the lengths differ:
\* obv_vals starts as [0], so it has one value for a frame of no rows
ObvRaises(d) == Len(ObvVals(d.rows, Len(d.rows))) # Len(d.rows)

obv(d) == SetColumn(d, "OBV", ObvVals(d.rows, Len(d.rows)))

volume_spike(d, period) ==
    LET volume == Column(d.rows, "volume")
        avg    == RollingMean(volume, period)
        \* volume > 1.2 * VolAvg, False where VolAvg is NaN
        spike  == [i \in 1..Len(volume) |->
                     /\ RollingSum(volume, period, i) # NaN
                     /\ 5 * period * volume[i] > 6 * RollingSum(volume, period, i)]
    IN  SetColumn(SetColumn(d, "VolAvg", avg), "VolSpike", spike)

\* a row survives DataFrame.dropna() when none of its numeric columns is NaN
HasNaN(r) == \E c \in (DOMAIN r) \ {"VolSpike"} : r[c] = NaN

\* df.dropna().reset_index(drop=True): a new frame, rows renumbered from 1
dropna(rows) == SelectSeq(rows, LAMBDA r : ~HasNaN(r))

\* the frame after the four indicator calls that precede obv
BeforeObv(d) ==
    atr(macd(rsi(bollinger_bands(d, BB_WINDOW, BB_NUM_STD), RSI_PERIOD),
             MACD_FAST, MACD_SLOW, MACD_SIGNAL), ATR_PERIOD)

\* CryptoFuturesBot.prepare_data up to (not including) dropna
Enriched(d) == volume_spike(obv(BeforeObv(d)), VOL_PERIOD)

-----------------------------------------------------------------------------
(* Signal and trade logic *)

\* df.iloc[-1] and df['OBV'].iloc[-2] raise IndexError when out of bounds
Last(rows) == rows[Len(rows)]
Prev(rows) == rows[Len(rows) - 1]

\* 1. Bollinger band position + squeeze (BandWidth < 0.5 %)
BandLong(row)  == row.close <= row.LowerBand /\ row.BandWidth < 50
BandShort(row) == row.close >= row.UpperBand /\ row.BandWidth < 50

\* RsiShort with the comparison turned around
RsiShortBelow(row) == row.RSI < 70 * 100

\* 2. RSI oversold (< 30) / overbought (> 70)
RsiLong(row)  == row.RSI < 30 * 100
RsiShort(row) == row.RSI > 70 * 100

\* 3. MACD cross over the last two rows, only when len(df) >= 2
MacdLong(rows) ==
    /\ Len(rows) >= 2
    /\ Prev(rows).MACD < Prev(rows).Signal
    /\ Last(rows).MACD > Last(rows).Signal
    /\ Last(rows).MACD_Hist > 0
MacdShort(rows) ==
    /\ Len(rows) >= 2
    /\ Prev(rows).MACD > Prev(rows).Signal
    /\ Last(rows).MACD < Last(rows).Signal
    /\ Last(rows).MACD_Hist < 0

\* VolumeLong without the OBV direction
VolumeLongAnyDirection(rows) == Last(rows).VolSpike

\* 4. volume confirmation: row['VolSpike'] and OBV rising / falling
VolumeLong(rows)  == Last(rows).VolSpike /\ Last(rows).OBV > Prev(rows).OBV
VolumeShort(rows) == Last(rows).VolSpike /\ Last(rows).OBV < Prev(rows).OBV

\* calculate_confluence_score raises IndexError: no last row, or a volume
\* spike on a frame with no row before the last one
ScoreRaises(rows) ==
    \/ Len(rows) = 0
    \/ Len(rows) = 1 /\ Last(rows).VolSpike

Weight(cond, w) == IF cond THEN w ELSE 0

ScoreLong(rows) ==
    Weight(BandLong(Last(rows)), W_BOLLINGER) + Weight(RsiLong(Last(rows)), W_RSI)
        + Weight(MacdLong(rows), W_MACD) + Weight(VolumeLong(rows), W_VOLUME)

ScoreShort(rows) ==
    Weight(BandShort(Last(rows)), W_BOLLINGER) + Weight(RsiShort(Last(rows)), W_RSI)
        + Weight(MacdShort(rows), W_MACD) + Weight(VolumeShort(rows), W_VOLUME)

\* Decision with the short side tested first at each tier
DecisionShortFirst(long, short) ==
    IF short >= HIGH_CONFIDENCE THEN [signal |-> "short", confidence |-> short]
    ELSE IF long >= HIGH_CONFIDENCE THEN [signal |-> "long", confidence |-> long]
    ELSE IF short >= MODERATE_CONFIDENCE THEN [signal |-> "short", confidence |-> short]
    ELSE IF long >= MODERATE_CONFIDENCE THEN [signal |-> "long", confidence |-> long]
    ELSE [signal |-> "no trade", confidence |-> 0]

\* the if / elif chain that picks the side
Decision(long, short) ==
    IF long >= HIGH_CONFIDENCE THEN [signal |-> "long", confidence |-> long]
    ELSE IF short >= HIGH_CONFIDENCE THEN [signal |-> "short", confidence |-> short]
    ELSE IF long >= MODERATE_CONFIDENCE THEN [signal |-> "long", confidence |-> long]
    ELSE IF short >= MODERATE_CONFIDENCE THEN [signal |-> "short", confidence |-> short]
    ELSE [signal |-> "no trade", confidence |-> 0]

\* twice the leverage multiplier: 1x, 3x, 0.5x by band width (0.5 %, 1.5 %)
LeverageTimes2(band_width) ==
    IF band_width < 50 THEN 2
    ELSE IF 50 <= band_width /\ band_width <= 150 THEN 6
    ELSE 1

\* calculate_position_size with the zero ATR clamped to 1 instead of returning 0
calculate_position_size_clamped(risk, pv, atr_val, band_width) ==
    (risk * pv * 2 * 10) \div (Max(atr_val, 1) * LeverageTimes2(band_width))

\* (account_risk * portfolio_value) / (ATR * leverage_multiplier), in 1/1000;
\* risk is the percentage, so the quotient is risk * pv * 2 / (100 * atr * 2lev)
calculate_position_size(risk, pv, atr_val, band_width) ==
    IF atr_val = 0 THEN 0
    ELSE (risk * pv * 2 * 10) \div (atr_val * LeverageTimes2(band_width))

\* entry, stop_loss, tp1, tp2 in 1/100 tick
calculate_trade_parameters(row, side) ==
    IF side = "long"
    THEN [entry     |-> 100 * row.close,
          stop_loss |-> Max(100 * row.LowerBand - 150 * row.ATR, 98 * row.close),
          tp1       |-> 100 * row.SMA,
          tp2       |-> 100 * row.UpperBand]
    ELSE IF side = "short"
    THEN [entry     |-> 100 * row.close,
          stop_loss |-> Min(100 * row.UpperBand + 150 * row.ATR, 102 * row.close),
          tp1       |-> 100 * row.SMA,
          tp2       |-> 100 * row.LowerBand]
    ELSE [entry |-> 100 * row.close, stop_loss |-> NONE, tp1 |-> NONE, tp2 |-> NONE]

-----------------------------------------------------------------------------
(* Inputs *)

Shapes == {"flat", "down", "up", "dip", "bump", "drop"}
Lengths == {0, 10, 23, 24, 25, 26, 40}
Spreads == {0, 5}
VolumePatterns == {"const", "spike"}

\* close of bar i of n: constant, a constant step down or up per bar, or
\* constant with bar 2 alone lower (dip) or higher (bump), or with the last
\* bar alone lower (drop)
CloseAt(shape, step, i, n) ==
    IF shape = "down" THEN 1000 - 5 * step * (i - 1)
    ELSE IF shape = "up" THEN 1000 + 5 * step * (i - 1)
    ELSE IF shape = "dip" /\ i = 2 THEN 1000 - 50 * step
    ELSE IF shape = "bump" /\ i = 2 THEN 1000 + 50 * step
    ELSE IF shape = "drop" /\ i = n THEN 1000 - 5 * step
    ELSE 1000

\* a candle series of n bars; "spike" triples the volume of the last bar
Series(shape, n, step, spread, pattern) ==
    [i \in 1..n |->
        [close  |-> CloseAt(shape, step, i, n),
         high   |-> CloseAt(shape, step, i, n) + spread,
         low    |-> CloseAt(shape, step, i, n) - spread,
         volume |-> IF pattern = "spike" /\ i = n THEN 300 ELSE 100]]

AllSeries ==
    {Series(shape, n, step, spread, pattern) :
        shape \in Shapes, n \in Lengths, step \in 1..MaxStep,
        spread \in Spreads, pattern \in VolumePatterns}

\* a row of an enriched frame, from the values its columns derive from
Row(sma, std, rsi_val, line, atr_val, obv_val, spike) ==
    [close     |-> 1000,
     SMA       |-> sma,
     STD       |-> std,
     UpperBand |-> sma + BB_NUM_STD * std,
     LowerBand |-> sma - BB_NUM_STD * std,
     BandWidth |-> (2 * BB_NUM_STD * std * 100 * 100) \div 1000,
     RSI       |-> rsi_val,
     MACD      |-> line,
     Signal    |-> 0,
     MACD_Hist |-> line,
     ATR       |-> atr_val,
     OBV       |-> obv_val,
     VolSpike  |-> spike]

\* a close of the window lies within (n - 1) / sqrt(n) sample standard
\* deviations of the window's mean; sma and std are the values rounded down
BandsPossible(close, sma, std) ==
    LET dev == IF sma >= close THEN sma - close ELSE close - sma - 1
    IN  BB_WINDOW * dev * dev
            < (BB_WINDOW - 1) * (BB_WINDOW - 1) * (std + 1) * (std + 1)

LastRows ==
    {Row(sma, std, rsi_val, line, atr_val, 0, spike) :
        sma \in {s \in {995, 1000, 1005} : \E d \in {0, 1, 3, 5} : BandsPossible(1000, s, d)},
        std \in {0, 1, 3, 5},
        rsi_val \in {2000, 3000, 7000, 8000}, line \in {-1, 0, 1},
        atr_val \in {0, 4, 40}, spike \in BOOLEAN}

\* the row before last: its MACD and OBV, and a close that moved as OBV did
PrevRow(last, line, obv_val) ==
    [last EXCEPT !.MACD = line, !.MACD_Hist = line, !.OBV = obv_val,
                 !.close = last.close + obv_val \div 100]

PossibleRows == {r \in LastRows : BandsPossible(r.close, r.SMA, r.STD)}

\* enriched frames of no row, one row and two rows
AllFrames ==
    {<<>>} \cup {<<last>> : last \in PossibleRows}
           \cup {<<PrevRow(last, line, obv_val), last>> :
                    last \in PossibleRows, line \in {-1, 0, 1}, obv_val \in {-100, 0, 100}}

Accounts == {[risk |-> r, value |-> v] : r \in {1, 2}, v \in {1000, 100000}}

WeightSums ==
    {b + r + m + v : b \in {0, W_BOLLINGER}, r \in {0, W_RSI},
                     m \in {0, W_MACD}, v \in {0, W_VOLUME}}

NoDetails == [signal |-> NONE]

-----------------------------------------------------------------------------
(* CryptoFuturesBot.analyze, one action per stage *)

Locals(rows) ==
    /\ frame = rows
    /\ score_long = 0
    /\ score_short = 0
    /\ signal = NONE
    /\ confidence = 0
    /\ pos_size = NONE
    /\ trade_details = NoDetails
    /\ error = "none"
    /\ trail = <<>>
    /\ calls = 1

\* this run is analyze on a candle series
OnSeries == given.cols = CandleColumns

\* bot.analyze(df) on a candle series
InitAnalyze ==
    /\ \E rows \in AllSeries :
        /\ df = [cols |-> CandleColumns, rows |-> rows]
        /\ given = [cols |-> CandleColumns, rows |-> rows]
    /\ \E a \in Accounts : account_risk = a.risk /\ portfolio_value = a.value
    /\ pc = "call"
    /\ Locals(<<>>)

\* the scorer and the risk functions on any enriched frame
InitFrame ==
    /\ df = [cols |-> {}, rows |-> <<>>]
    /\ given = df
    /\ \E a \in Accounts : account_risk = a.risk /\ portfolio_value = a.value
    /\ pc = "prepared"
    /\ \E rows \in AllFrames : Locals(rows)

Init == InitAnalyze \/ InitFrame

\* df = self.prepare_data(df)
PrepareData ==
    /\ pc = "call"
    /\ trail' = Append(trail, "enrich")
    /\ IF ObvRaises(BeforeObv(df))
       THEN /\ df' = BeforeObv(df)
            /\ error' = "ValueError"
            /\ pc' = "raised"
            /\ UNCHANGED frame
       ELSE /\ df' = Enriched(df)
            /\ frame' = dropna(Enriched(df).rows)
            /\ pc' = "prepared"
            /\ UNCHANGED error
    /\ UNCHANGED <<given, account_risk, portfolio_value, score_long, score_short,
                   signal, confidence, pos_size, trade_details, calls>>

\* signal, confidence = calculate_confluence_score(df)
ConfluenceScore ==
    /\ pc = "prepared"
    /\ trail' = Append(trail, "score")
    /\ IF ScoreRaises(frame)
       THEN /\ error' = "IndexError"
            /\ pc' = "raised"
            /\ UNCHANGED <<score_long, score_short, signal, confidence>>
       ELSE /\ score_long' = ScoreLong(frame)
            /\ score_short' = ScoreShort(frame)
            /\ signal' = Decision(ScoreLong(frame), ScoreShort(frame)).signal
            /\ confidence' = Decision(ScoreLong(frame), ScoreShort(frame)).confidence
            /\ pc' = "scored"
            /\ UNCHANGED error
    /\ UNCHANGED <<df, given, account_risk, portfolio_value, frame, pos_size,
                   trade_details, calls>>

\* latest = df.iloc[-1] ... pos_size = calculate_position_size(...)
PositionSize ==
    /\ pc = "scored"
    /\ trail' = Append(trail, "size")
    /\ pos_size' = calculate_position_size(account_risk, portfolio_value,
                        Last(frame).ATR, Last(frame).BandWidth)
    /\ pc' = "sized"
    /\ UNCHANGED <<df, given, account_risk, portfolio_value, frame, score_long,
                   score_short, signal, confidence, trade_details, error, calls>>

\* if signal in ['long', 'short']: calculate_trade_parameters, the full record
TradeParameters ==
    /\ pc = "sized"
    /\ signal \in {"long", "short"}
    /\ trail' = Append(trail, "parameters")
    /\ LET p == calculate_trade_parameters(Last(frame), signal)
       IN  trade_details' =
               [signal        |-> signal,
                confidence    |-> confidence,
                entry         |-> p.entry,
                stop_loss     |-> p.stop_loss,
                take_profit1  |-> p.tp1,
                take_profit2  |-> p.tp2,
                position_size |-> pos_size,
                band_width    |-> Last(frame).BandWidth,
                ATR           |-> Last(frame).ATR,
                RSI           |-> Last(frame).RSI]
    /\ pc' = "returned"
    /\ UNCHANGED <<df, given, account_risk, portfolio_value, frame, score_long,
                   score_short, signal, confidence, pos_size, error, calls>>

\* NoTrade that computes the trade parameters and returns the full record
NoTradeWithParameters ==
    /\ pc = "sized"
    /\ signal \notin {"long", "short"}
    /\ trail' = Append(trail, "parameters")
    /\ LET p == calculate_trade_parameters(Last(frame), signal)
       IN  trade_details' =
               [signal        |-> "no trade",
                confidence    |-> confidence,
                entry         |-> p.entry,
                stop_loss     |-> p.stop_loss,
                take_profit1  |-> p.tp1,
                take_profit2  |-> p.tp2,
                position_size |-> pos_size,
                band_width    |-> Last(frame).BandWidth,
                ATR           |-> Last(frame).ATR,
                RSI           |-> Last(frame).RSI]
    /\ pc' = "returned"
    /\ UNCHANGED <<df, given, account_risk, portfolio_value, frame, score_long,
                   score_short, signal, confidence, pos_size, error, calls>>

\* else: trade_details = {"signal": "no trade", "confidence": confidence}
NoTrade ==
    /\ pc = "sized"
    /\ signal \notin {"long", "short"}
    /\ trade_details' = [signal |-> "no trade", confidence |-> confidence]
    /\ pc' = "returned"
    /\ UNCHANGED <<df, given, account_risk, portfolio_value, frame, score_long,
                   score_short, signal, confidence, pos_size, error, trail, calls>>

\* the caller runs analyze again on the same DataFrame object
CallAgain ==
    /\ pc \in {"returned", "raised"}
    /\ OnSeries
    /\ calls < MaxCalls
    /\ calls' = calls + 1
    /\ pc' = "call"
    /\ frame' = <<>>
    /\ score_long' = 0
    /\ score_short' = 0
    /\ signal' = NONE
    /\ confidence' = 0
    /\ pos_size' = NONE
    /\ trade_details' = NoDetails
    /\ error' = "none"
    /\ trail' = <<>>
    /\ UNCHANGED <<df, given, account_risk, portfolio_value>>

Next ==
    \/ PrepareData
    \/ ConfluenceScore
    \/ PositionSize
    \/ TradeParameters
    \/ NoTrade
    \/ CallAgain

Spec == Init /\ [][Next]_vars

-----------------------------------------------------------------------------
(* The decision rule alone, on any pair of scores *)

InitDecision ==
    /\ df = [cols |-> {}, rows |-> <<>>]
    /\ given = df
    /\ account_risk = 2
    /\ portfolio_value = 100000
    /\ pc = "deciding"
    /\ frame = <<>>
    /\ score_long \in WeightSums
    /\ score_short \in WeightSums
    /\ signal = NONE
    /\ confidence = 0
    /\ pos_size = NONE
    /\ trade_details = NoDetails
    /\ error = "none"
    /\ trail = <<>>
    /\ calls = 1

Decide ==
    /\ pc = "deciding"
    /\ signal' = Decision(score_long, score_short).signal
    /\ confidence' = Decision(score_long, score_short).confidence
    /\ pc' = "scored"
    /\ UNCHANGED <<df, given, account_risk, portfolio_value, frame, score_long,
                   score_short, pos_size, trade_details, error, trail, calls>>

NextDecision == Decide

SpecDecision == InitDecision /\ [][NextDecision]_vars

-----------------------------------------------------------------------------
(* Properties *)

NoTradeDecision == [signal |-> "no trade", confidence |-> 0]

TradeFields ==
    {"signal", "confidence", "entry", "stop_loss", "take_profit1", "take_profit2",
     "position_size", "band_width", "ATR", "RSI"}

Stages(t) == {t[i] : i \in 1..Len(t)}

IsPrefix(t, u) == Len(t) <= Len(u) /\ t = SubSeq(u, 1, Len(t))

\* the series analyze was given is the 40-bar series of this shape and volumes
Given40(shape, pattern) ==
    /\ OnSeries
    /\ \E step \in 1..MaxStep, spread \in Spreads :
          given.rows = Series(shape, 40, step, spread, pattern)

\* calculate_confluence_score was the last stage entered
ScorerRan == trail # <<>> /\ trail[Len(trail)] = "score"

\* C1: on every candle series too short for a row to survive the removal of
\* the warm-up rows (the empty series included), analyze does not raise and
\* returns direction 'no trade' with confidence 0.
C1_ShortSeriesNoTrade ==
    (OnSeries /\ Len(given.rows) < VOL_PERIOD) =>
        /\ error = "none"
        /\ pc # "raised"
        /\ pc = "returned" => trade_details = NoTradeDecision

\* C2: on a flat 40-bar series (same close and same volume on every bar)
\* neither score reaches 60 on the last bar and analyze returns 'no trade'
\* with confidence 0 without raising.
C2_FlatSeriesNoTrade ==
    Given40("flat", "const") =>
        /\ error = "none"
        /\ pc \in {"scored", "sized", "returned"} => score_long < 60 /\ score_short < 60
        /\ pc = "returned" => trade_details = NoTradeDecision

\* C3: the decision as a function of the pair (long score, short score):
\* a score >= 85 wins with its own score as confidence, long first when both
\* are >= 85; otherwise long >= 60 gives long, otherwise short >= 60 gives
\* short, otherwise 'no trade' with confidence 0; exactly one direction.
C3_DecisionRule ==
    pc = "scored" =>
        /\ signal \in {"long", "short", "no trade"}
        /\ score_long >= 85 => signal = "long" /\ confidence = score_long
        /\ (score_long < 85 /\ score_short >= 85) =>
              signal = "short" /\ confidence = score_short
        /\ (score_long < 85 /\ score_short < 85 /\ score_long >= 60) =>
              signal = "long" /\ confidence = score_long
        /\ (score_long < 60 /\ score_short < 85 /\ score_short >= 60) =>
              signal = "short" /\ confidence = score_short
        /\ (score_long < 60 /\ score_short < 60) =>
              signal = "no trade" /\ confidence = 0

\* C3 witness: both scores are >= 85 and the decision is long
C3_BothHighIsLong ==
    /\ pc = "scored"
    /\ score_long >= 85 /\ score_short >= 85
    /\ signal = "long" /\ confidence = score_long

\* C4 as stated: on a 40-bar series whose closes fall by the same step on
\* every bar, with a volume spike on the last bar, analyze returns long with
\* confidence >= 60, stop_loss < entry and both take-profits > entry.
C4_FallingSeriesIsLong ==
    (Given40("down", "spike") /\ pc = "returned") =>
        /\ trade_details.signal = "long"
        /\ trade_details.confidence >= 60
        /\ trade_details.stop_loss < trade_details.entry
        /\ trade_details.take_profit1 > trade_details.entry
        /\ trade_details.take_profit2 > trade_details.entry

\* C4 amended: on such a series the last close stays above the lower band,
\* RSI < 30 holds, the long score is 25 (RSI alone) and the short score is 15
\* (volume spike with falling OBV), and analyze returns 'no trade' with
\* confidence 0.
C4_FallingSeriesNoTrade ==
    (Given40("down", "spike") /\ pc \in {"scored", "sized", "returned"}) =>
        /\ Last(frame).close > Last(frame).LowerBand
        /\ Last(frame).RSI < 30 * 100
        /\ Last(frame).VolSpike
        /\ score_long = 25
        /\ score_short = 15
        /\ signal = "no trade" /\ confidence = 0
        /\ pc = "returned" => trade_details = NoTradeDecision

\* C4 witness: analyze has returned 'no trade' on a falling 40-bar series
C4_FallingSeriesReturned ==
    /\ Given40("down", "spike")
    /\ pc = "returned"
    /\ trade_details = NoTradeDecision

\* C5 as stated: the stages run as enrich, score, risk parameters, and the
\* risk parameters (position size included) are computed only when the
\* direction is long or short; a 'no trade' decision carries only direction
\* and confidence.
C5_RiskOnlyWhenTrade ==
    OnSeries =>
        /\ IsPrefix(trail, <<"enrich", "score", "size", "parameters">>)
        /\ signal \notin {"long", "short"} =>
              Stages(trail) \subseteq {"enrich", "score"}
        /\ (pc = "returned" /\ signal = "no trade") =>
              DOMAIN trade_details = {"signal", "confidence"}

\* C5 amended: the stages run as enrich, score, position size and then, only
\* when the direction is long or short, the entry / stop / target
\* computation; the position size is computed on every call that scores,
\* before the branch; a 'no trade' decision carries only direction and
\* confidence, a long or short one the full record.
C5_StagesInOrder ==
    /\ OnSeries => IsPrefix(trail, <<"enrich", "score", "size", "parameters">>)
    /\ "parameters" \in Stages(trail) => signal \in {"long", "short"}
    /\ pc \in {"sized", "returned"} => "size" \in Stages(trail)
    /\ (pc = "returned" /\ signal \in {"long", "short"}) =>
          /\ "parameters" \in Stages(trail)
          /\ DOMAIN trade_details = TradeFields
          /\ trade_details.signal = signal
    /\ (pc = "returned" /\ signal = "no trade") =>
          trade_details = [signal |-> "no trade", confidence |-> confidence]

\* C5 witness: analyze returned 'no trade' after computing a position size
C5_NoTradeAfterSizing ==
    /\ OnSeries
    /\ pc = "returned"
    /\ signal = "no trade"
    /\ trail = <<"enrich", "score", "size">>

\* C6: analyze leaves the caller's candle series as it was: the same columns
\* and the same values, whatever number of calls were made.
C6_InputUnchanged == df = given

\* C7: on a frame of fewer than 2 rows the scorer returns 'no trade' with
\* confidence 0, whatever the row holds, and does not raise.
C7_FewerThanTwoRows ==
    (ScorerRan /\ Len(frame) < 2) =>
        /\ pc = "scored"
        /\ error = "none"
        /\ signal = "no trade" /\ confidence = 0

\* C8: whenever the ATR of the latest bar is 0 the position size is 0, for
\* every account_risk, portfolio_value and band width, and a long or short
\* decision still carries entry, stop-loss and take-profits from the bands.
C8_ZeroAtrZeroSize ==
    (pc \in {"sized", "returned"} /\ Last(frame).ATR = 0) =>
        /\ pos_size = 0
        /\ (pc = "returned" /\ signal \in {"long", "short"}) =>
              /\ trade_details.position_size = 0
              /\ trade_details.entry = 100 * Last(frame).close
              /\ trade_details.take_profit1 = 100 * Last(frame).SMA
              /\ signal = "long" =>
                    /\ trade_details.stop_loss =
                          Max(100 * Last(frame).LowerBand, 98 * Last(frame).close)
                    /\ trade_details.take_profit2 = 100 * Last(frame).UpperBand
              /\ signal = "short" =>
                    /\ trade_details.stop_loss =
                          Min(100 * Last(frame).UpperBand, 102 * Last(frame).close)
                    /\ trade_details.take_profit2 = 100 * Last(frame).LowerBand

\* C8 witness: a short decision outside the squeeze, returned with ATR 0
C8_TradeWithZeroAtr ==
    /\ pc = "returned"
    /\ signal = "short"
    /\ Last(frame).ATR = 0
    /\ Last(frame).BandWidth >= 50
    /\ trade_details.position_size = 0

\* C9: every decision analyze returns has its stop-loss on the losing side
\* of the entry: below it for a long, above it for a short.
C9_StopOnLosingSide ==
    (OnSeries /\ pc = "returned") =>
        /\ signal = "long" => trade_details.stop_loss < trade_details.entry
        /\ signal = "short" => trade_details.stop_loss > trade_details.entry

\* the RSI, MACD-cross and volume conditions each hold for one side at most
SidesExclusive(rows) ==
    /\ ~(RsiLong(Last(rows)) /\ RsiShort(Last(rows)))
    /\ ~(MacdLong(rows) /\ MacdShort(rows))
    /\ ~(VolumeLong(rows) /\ VolumeShort(rows))

====
